---------------------------- MODULE Spec2Model ----------------------------
(***************************************************************************)
(* Model of printBindings (wrangler, environment-variables/misc-variables  *)
(* .ts): the binding inventory rendering and the local-dev connectivity    *)
(* markers.  Strings are TLA+ strings (Len, \o and SubSeq act on them as   *)
(* .length, + and .substring do).  A JavaScript value whose type matters   *)
(* is a tagged record: [t |-> "undefined"], [t |-> "null"],                *)
(* [t |-> "symbol"], [t |-> "string", v |-> ...], [t |-> "boolean", ...].  *)
(* A JavaScript object whose key order matters (the bindings record, the   *)
(* map kinds) is a sequence of [key, value] records in insertion order.    *)
(***************************************************************************)
EXTENDS Integers, Sequences, FiniteSets, TLC

VARIABLES bindings, tailConsumers, context, flags, pc,
          output, tailLines, hasConnectionStatus, logs, onceLogs

vars == <<bindings, tailConsumers, context, flags, pc,
          output, tailLines, hasConnectionStatus, logs, onceLogs>>

----------------------------------------------------------------------------
(* JavaScript values *)

Undef == [t |-> "undefined"]
Null == [t |-> "null"]
Sym == [t |-> "symbol"]
Str(s) == [t |-> "string", v |-> s]
Bool(b) == [t |-> "boolean", v |-> b]

\* JavaScript truthiness of a tagged value
Truthy(x) ==
  CASE x.t = "undefined" -> FALSE
    [] x.t = "null" -> FALSE
    [] x.t = "boolean" -> x.v
    [] x.t = "string" -> x.v # ""
    [] OTHER -> TRUE

\* does string s contain string t
Contains(s, t) ==
  \E i \in 1..(Len(s) - Len(t) + 1) : SubSeq(s, i, i + Len(t) - 1) = t

EndsWith(s, t) ==
  Len(s) >= Len(t) /\ SubSeq(s, Len(s) - Len(t) + 1, Len(s)) = t

\* chalk.green / chalk.red / chalk.blue wrap the text in colour codes,
\* written here as tags
chalk_green(s) == "<green>" \o s \o "</green>"
chalk_red(s) == "<red>" \o s \o "</red>"
chalk_blue(s) == "<blue>" \o s \o "</blue>"

\* Array.prototype.join
RECURSIVE join(_, _)
join(seq, sep) ==
  IF Len(seq) = 0 THEN ""
  ELSE IF Len(seq) = 1 THEN seq[1]
  ELSE seq[1] \o sep \o join(Tail(seq), sep)

\* Array.prototype.map, with f an operator
Map(f(_), seq) == [i \in 1..Len(seq) |-> f(seq[i])]

----------------------------------------------------------------------------
(* The bindings record: key lookup as destructuring does it *)

Has(b, k) == \E i \in 1..Len(b) : b[i].key = k
Get(b, k) == b[CHOOSE i \in 1..Len(b) : b[i].key = k].value

friendlyBindingNames ==
  [ data_blobs |-> "Data Blobs",
    durable_objects |-> "Durable Objects",
    kv_namespaces |-> "KV Namespaces",
    send_email |-> "Send Email",
    queues |-> "Queues",
    d1_databases |-> "D1 Databases",
    vectorize |-> "Vectorize Indexes",
    hyperdrive |-> "Hyperdrive Configs",
    r2_buckets |-> "R2 Buckets",
    logfwdr |-> "logfwdr",
    services |-> "Services",
    analytics_engine_datasets |-> "Analytics Engine Datasets",
    text_blobs |-> "Text Blobs",
    browser |-> "Browser",
    ai |-> "AI",
    images |-> "Images",
    version_metadata |-> "Worker Version Metadata",
    unsafe |-> "Unsafe Metadata",
    vars |-> "Vars",
    wasm_modules |-> "Wasm Modules",
    dispatch_namespaces |-> "Dispatch Namespaces",
    mtls_certificates |-> "mTLS Certificates",
    workflows |-> "Workflows",
    pipelines |-> "Pipelines",
    secrets_store_secrets |-> "Secrets Store Secrets",
    assets |-> "Assets" ]

----------------------------------------------------------------------------
(* Suffixes *)

normalizeValue(value) ==
  IF ~Truthy(value) \/ value.t = "symbol" THEN "" ELSE value.v

\* suffixes also while provisioning
addSuffixOf_noProvisioning(isProvisioning, isLocalDev, value, isSimulatedLocally) ==
  LET normalizedValue == IF ~Truthy(value) \/ value.t = "symbol" THEN "" ELSE value.v
  IN IF ~Truthy(isLocalDev) THEN normalizedValue
     ELSE IF Truthy(isSimulatedLocally)
          THEN normalizedValue \o " [simulated locally]"
          ELSE normalizedValue \o " [connected to remote resource]"

\* createAddSuffix({isProvisioning, isLocalDev}) applied to
\* (value, {isSimulatedLocally}); an undefined flag takes its default false
addSuffixOf(isProvisioning, isLocalDev, value, isSimulatedLocally) ==
  LET normalizedValue == normalizeValue(value) IN
  IF Truthy(isProvisioning) \/ ~Truthy(isLocalDev) THEN normalizedValue
  ELSE IF Truthy(isSimulatedLocally)
       THEN normalizedValue \o " [simulated locally]"
       ELSE normalizedValue \o " [connected to remote resource]"

\* const addSuffix = createAddSuffix({context.provisioning, context.local})
addSuffix(ctx, value, isSimulatedLocally) ==
  addSuffixOf(ctx.provisioning, ctx.local, value, isSimulatedLocally)

Not_forgotten(x) == Bool(Truthy(x))

\* !remote
Not(x) == Bool(~Truthy(x))

\* cuts only the values longer than the budget
truncate_offByOne(s) ==
  IF Len(s) <= 40 THEN s
  ELSE SubSeq(s, 1, 37) \o "..."

maxLength == 40

truncate(s) ==
  IF Len(s) < maxLength THEN s
  ELSE SubSeq(s, 1, maxLength - 3) \o "..."

----------------------------------------------------------------------------
(* Dev registry *)

\* context.registry?.[name]
registryLookup(registry, name) ==
  IF registry.t = "object" /\ name \in DOMAIN registry.workers
  THEN registry.workers[name]
  ELSE Undef

\* registryDefinition.entrypointAddresses?.[entrypoint]
entrypointAddress(registryDefinition, entrypoint) ==
  IF registryDefinition.entrypointAddresses.t = "object"
     /\ entrypoint \in registryDefinition.entrypointAddresses.keys
  THEN [t |-> "object"]
  ELSE Undef

durableObjectConnected_anyClass(registryDefinition, class_name) ==
  Truthy(registryDefinition)

\* the condition of lines 295-300
durableObjectConnected(registryDefinition, class_name) ==
  /\ Truthy(registryDefinition)
  /\ \E i \in 1..Len(registryDefinition.durableObjects) :
        registryDefinition.durableObjects[i].className = class_name

serviceConnected_anyEntrypoint(registryDefinition, entrypoint) ==
  Truthy(registryDefinition)

\* the condition of lines 519-523
serviceConnected(registryDefinition, entrypoint) ==
  /\ Truthy(registryDefinition)
  /\ \/ ~Truthy(entrypoint)
     \/ Truthy(entrypointAddress(registryDefinition, entrypoint.v))

\* context.local && context.registry !== null
resolvesConnection(ctx) ==
  Truthy(ctx.local) /\ ctx.registry.t # "null"

----------------------------------------------------------------------------
(* Entries of the peer-service kinds; status is the assignment              *)
(* hasConnectionStatus = true made while the entry is built                 *)

durableObjectEntry(ctx, item) ==
  LET registryDefinition == registryLookup(ctx.registry, item.script_name.v)
      value ==
        IF Truthy(item.script_name)
        THEN IF resolvesConnection(ctx)
             THEN IF durableObjectConnected(registryDefinition, item.class_name)
                  THEN item.class_name \o " (defined in " \o item.script_name.v
                         \o " " \o chalk_green("[connected]") \o ")"
                  ELSE item.class_name \o " (defined in " \o item.script_name.v
                         \o " " \o chalk_red("[not connected]") \o ")"
             ELSE item.class_name \o " (defined in " \o item.script_name.v \o ")"
        ELSE item.class_name
  IN [ key |-> item.name, value |-> value,
       status |-> Truthy(item.script_name) /\ resolvesConnection(ctx) ]

\* resolves connectivity before looking at remote
serviceEntry_resolveFirst(ctx, flg, item) ==
  LET registryDefinition == registryLookup(ctx.registry, item.service)
      value0 == IF Truthy(item.entrypoint)
                THEN item.service \o "#" \o item.entrypoint.v
                ELSE item.service
      value ==
        IF resolvesConnection(ctx)
        THEN IF serviceConnected(registryDefinition, item.entrypoint)
             THEN IF flg.MIXED_MODE
                  THEN value0 \o " " \o chalk_green("[connected to local resource]")
                  ELSE value0 \o " " \o chalk_green("[connected]")
             ELSE value0 \o " " \o chalk_red("[not connected]")
        ELSE IF Truthy(item.remote)
        THEN addSuffix(ctx, Str(value0), Bool(FALSE))
        ELSE value0
  IN [ key |-> item.binding, value |-> value, status |-> resolvesConnection(ctx) ]

\* appends the marker to the suffixed value
serviceEntry_markerAfterSuffix(ctx, flg, item) ==
  LET registryDefinition == registryLookup(ctx.registry, item.service)
      value0 == IF Truthy(item.entrypoint)
                THEN item.service \o "#" \o item.entrypoint.v
                ELSE item.service
      value1 == addSuffix(ctx, Str(value0), Not(item.remote))
      value ==
        IF Truthy(item.remote) THEN value1
        ELSE IF resolvesConnection(ctx)
        THEN IF serviceConnected(registryDefinition, item.entrypoint)
             THEN value1 \o " " \o chalk_green("[connected]")
             ELSE value1 \o " " \o chalk_red("[not connected]")
        ELSE value0
  IN [ key |-> item.binding, value |-> value,
       status |-> ~Truthy(item.remote) /\ resolvesConnection(ctx) ]

serviceEntry(ctx, flg, item) ==
  LET registryDefinition == registryLookup(ctx.registry, item.service)
      value0 == IF Truthy(item.entrypoint)
                THEN item.service \o "#" \o item.entrypoint.v
                ELSE item.service
      value ==
        IF Truthy(item.remote)
        THEN addSuffix(ctx, Str(value0), Bool(FALSE))
        ELSE IF resolvesConnection(ctx)
        THEN IF serviceConnected(registryDefinition, item.entrypoint)
             THEN IF flg.MIXED_MODE
                  THEN value0 \o " " \o chalk_green("[connected to local resource]")
                  ELSE value0 \o " " \o chalk_green("[connected]")
             ELSE value0 \o " " \o chalk_red("[not connected]")
        ELSE value0
  IN [ key |-> item.binding, value |-> value,
       status |-> ~Truthy(item.remote) /\ resolvesConnection(ctx) ]

tailConsumerLine(ctx, item) ==
  LET registryDefinition == registryLookup(ctx.registry, item.service)
      line ==
        IF resolvesConnection(ctx)
        THEN IF Truthy(registryDefinition)
             THEN "- " \o item.service \o " " \o chalk_green("[connected]")
             ELSE "- " \o item.service \o " " \o chalk_red("[not connected]")
        ELSE "- " \o item.service
  IN [ value |-> line, status |-> resolvesConnection(ctx) ]

----------------------------------------------------------------------------
(* The groups, one operator per block of printBindings; each gives the       *)
(* groups the block pushes (none or one)                                     *)

Group(name, entries) == << [name |-> name, entries |-> entries] >>

Entry(key, value) == [key |-> key, value |-> value]

\* drops the status field of a peer-service entry
Plain(e) == Entry(e.key, e.value)

data_blobs_group(b) ==
  IF Has(b, "data_blobs") /\ Len(Get(b, "data_blobs")) > 0
  THEN Group(friendlyBindingNames.data_blobs,
         Map(LAMBDA kv : Entry(kv.key,
               IF kv.value.t = "string" THEN truncate(kv.value.v) ELSE "<Buffer>"),
             Get(b, "data_blobs")))
  ELSE << >>

durable_objects_entries(b, ctx) ==
  IF Has(b, "durable_objects") /\ Len(Get(b, "durable_objects").bindings) > 0
  THEN Map(LAMBDA item : durableObjectEntry(ctx, item),
           Get(b, "durable_objects").bindings)
  ELSE << >>

durable_objects_group(b, ctx) ==
  IF Has(b, "durable_objects") /\ Len(Get(b, "durable_objects").bindings) > 0
  THEN Group(friendlyBindingNames.durable_objects,
             Map(Plain, durable_objects_entries(b, ctx)))
  ELSE << >>

workflowValue(ctx, item) ==
  IF Truthy(item.script_name)
  THEN item.class_name \o " (defined in " \o item.script_name.v \o ")"
  ELSE addSuffix(ctx, Str(item.class_name), Not(item.remote))

workflows_group(b, ctx) ==
  IF Has(b, "workflows") /\ Len(Get(b, "workflows")) > 0
  THEN Group(friendlyBindingNames.workflows,
         Map(LAMBDA item : Entry(item.binding, workflowValue(ctx, item)),
             Get(b, "workflows")))
  ELSE << >>

kv_namespaces_group(b, ctx) ==
  IF Has(b, "kv_namespaces") /\ Len(Get(b, "kv_namespaces")) > 0
  THEN Group(friendlyBindingNames.kv_namespaces,
         Map(LAMBDA item : Entry(item.binding,
               addSuffix(ctx, item.id, Not(item.remote))),
             Get(b, "kv_namespaces")))
  ELSE << >>

\* destination_address || allowed_destination_addresses?.join(", ") || "unrestricted"
sendEmailValue(item) ==
  IF Truthy(item.destination_address) THEN item.destination_address
  ELSE IF item.allowed_destination_addresses.t = "array"
          /\ join(item.allowed_destination_addresses.items, ", ") # ""
  THEN Str(join(item.allowed_destination_addresses.items, ", "))
  ELSE Str("unrestricted")

send_email_group(b, ctx) ==
  IF Has(b, "send_email") /\ Len(Get(b, "send_email")) > 0
  THEN Group(friendlyBindingNames.send_email,
         Map(LAMBDA item : Entry(item.name,
               addSuffix(ctx, sendEmailValue(item), Bool(TRUE))),
             Get(b, "send_email")))
  ELSE << >>

queues_group(b, ctx) ==
  IF Has(b, "queues") /\ Len(Get(b, "queues")) > 0
  THEN Group(friendlyBindingNames.queues,
         Map(LAMBDA item : Entry(item.binding,
               addSuffix(ctx, item.queue_name, Not(item.remote))),
             Get(b, "queues")))
  ELSE << >>

\* appends the preview id whatever database_id is
d1DatabaseValue_previewAlways(item) ==
  LET remoteDatabaseId ==
        IF item.database_id.t = "string" THEN item.database_id ELSE Null
      databaseValue ==
        IF Truthy(remoteDatabaseId) /\ Truthy(item.database_name)
        THEN Str(item.database_name.v \o " (" \o remoteDatabaseId.v \o ")")
        ELSE IF remoteDatabaseId.t # "null" THEN remoteDatabaseId
             ELSE item.database_name
  IN IF Truthy(item.preview_database_id)
     THEN Str((IF Truthy(databaseValue) THEN databaseValue.v \o ", " ELSE "")
              \o "Preview: (" \o item.preview_database_id.v \o ")")
     ELSE databaseValue

\* lines 404-414: the identifier of a D1 database before the suffix
d1DatabaseValue(item) ==
  LET remoteDatabaseId ==
        IF item.database_id.t = "string" THEN item.database_id ELSE Null
      databaseValue ==
        IF Truthy(remoteDatabaseId) /\ Truthy(item.database_name)
        THEN Str(item.database_name.v \o " (" \o remoteDatabaseId.v \o ")")
        ELSE IF remoteDatabaseId.t # "null" THEN remoteDatabaseId
             ELSE item.database_name
  IN IF Truthy(item.preview_database_id)
        /\ ~(item.database_id.t = "string" /\ item.database_id.v = "local")
     THEN Str((IF Truthy(databaseValue) THEN databaseValue.v \o ", " ELSE "")
              \o "Preview: (" \o item.preview_database_id.v \o ")")
     ELSE databaseValue

d1_databases_group(b, ctx) ==
  IF Has(b, "d1_databases") /\ Len(Get(b, "d1_databases")) > 0
  THEN Group(friendlyBindingNames.d1_databases,
         Map(LAMBDA item : Entry(item.binding,
               addSuffix(ctx, d1DatabaseValue(item), Not(item.remote))),
             Get(b, "d1_databases")))
  ELSE << >>

vectorize_group(b, ctx) ==
  IF Has(b, "vectorize") /\ Len(Get(b, "vectorize")) > 0
  THEN Group(friendlyBindingNames.vectorize,
         Map(LAMBDA item : Entry(item.binding,
               addSuffix(ctx, item.index_name, Undef)),
             Get(b, "vectorize")))
  ELSE << >>

hyperdrive_group(b, ctx) ==
  IF Has(b, "hyperdrive") /\ Len(Get(b, "hyperdrive")) > 0
  THEN Group(friendlyBindingNames.hyperdrive,
         Map(LAMBDA item : Entry(item.binding,
               addSuffix(ctx, item.id, Bool(TRUE))),
             Get(b, "hyperdrive")))
  ELSE << >>

r2BucketName(item) ==
  LET name == IF item.bucket_name.t = "string" THEN item.bucket_name.v ELSE ""
  IN IF item.jurisdiction.t # "undefined"
     THEN name \o " (" \o item.jurisdiction.v \o ")"
     ELSE name

r2_buckets_group(b, ctx) ==
  IF Has(b, "r2_buckets") /\ Len(Get(b, "r2_buckets")) > 0
  THEN Group(friendlyBindingNames.r2_buckets,
         Map(LAMBDA item : Entry(item.binding,
               addSuffix(ctx, Str(r2BucketName(item)), Not(item.remote))),
             Get(b, "r2_buckets")))
  ELSE << >>

logfwdr_group(b, ctx) ==
  IF Has(b, "logfwdr") /\ Len(Get(b, "logfwdr").bindings) > 0
  THEN Group(friendlyBindingNames.logfwdr,
         Map(LAMBDA item : Entry(item.name,
               addSuffix(ctx, item.destination, Undef)),
             Get(b, "logfwdr").bindings))
  ELSE << >>

secrets_store_secrets_group(b, ctx) ==
  IF Has(b, "secrets_store_secrets") /\ Len(Get(b, "secrets_store_secrets")) > 0
  THEN Group(friendlyBindingNames.secrets_store_secrets,
         Map(LAMBDA item : Entry(item.binding,
               addSuffix(ctx, Str(item.store_id \o "/" \o item.secret_name),
                         Bool(TRUE))),
             Get(b, "secrets_store_secrets")))
  ELSE << >>

services_entries(b, ctx, flg) ==
  IF Has(b, "services") /\ Len(Get(b, "services")) > 0
  THEN Map(LAMBDA item : serviceEntry(ctx, flg, item), Get(b, "services"))
  ELSE << >>

services_group(b, ctx, flg) ==
  IF Has(b, "services") /\ Len(Get(b, "services")) > 0
  THEN Group(friendlyBindingNames.services,
             Map(Plain, services_entries(b, ctx, flg)))
  ELSE << >>

analytics_engine_datasets_group(b, ctx) ==
  IF Has(b, "analytics_engine_datasets")
     /\ Len(Get(b, "analytics_engine_datasets")) > 0
  THEN Group(friendlyBindingNames.analytics_engine_datasets,
         Map(LAMBDA item : Entry(item.binding,
               addSuffix(ctx,
                 IF item.dataset.t \in {"undefined", "null"}
                 THEN Str(item.binding) ELSE item.dataset,
                 Bool(TRUE))),
             Get(b, "analytics_engine_datasets")))
  ELSE << >>

text_blobs_group(b, ctx) ==
  IF Has(b, "text_blobs") /\ Len(Get(b, "text_blobs")) > 0
  THEN Group(friendlyBindingNames.text_blobs,
         Map(LAMBDA kv : Entry(kv.key,
               addSuffix(ctx, Str(truncate(kv.value.v)), Undef)),
             Get(b, "text_blobs")))
  ELSE << >>

browser_group(b) ==
  IF Has(b, "browser")
  THEN Group(friendlyBindingNames.browser,
             << Entry("Name", Get(b, "browser").binding) >>)
  ELSE << >>

\* decorates the Images value as the other bindings
addImagesSuffix_sameAsOthers(ctx, value) ==
  addSuffixOf(ctx.provisioning, ctx.local, value, Undef)

\* createAddSuffix({context.provisioning, !!context.imagesLocalMode})
addImagesSuffix(ctx, value) ==
  addSuffixOf(ctx.provisioning, Bool(Truthy(ctx.imagesLocalMode)), value, Undef)

images_group(b, ctx) ==
  IF Has(b, "images")
  THEN Group(friendlyBindingNames.images,
             << Entry("Name", addImagesSuffix(ctx, Str(Get(b, "images").binding))) >>)
  ELSE << >>

ai_group(b, ctx) ==
  IF Has(b, "ai")
  THEN LET ai == Get(b, "ai")
           entries == << Entry("Name", addSuffix(ctx, Str(ai.binding), Undef)) >>
       IN Group(friendlyBindingNames.ai,
            IF Truthy(ai.staging)
            THEN Append(entries,
                   Entry("Staging", addSuffix(ctx, Str("true"), Bool(FALSE))))
            ELSE entries)
  ELSE << >>

\* pipelines?.length
pipelines_group(b, ctx) ==
  IF Has(b, "pipelines") /\ Len(Get(b, "pipelines")) # 0
  THEN Group(friendlyBindingNames.pipelines,
         Map(LAMBDA item : Entry(item.binding,
               addSuffix(ctx, Str(item.pipeline), Undef)),
             Get(b, "pipelines")))
  ELSE << >>

assets_group(b) ==
  IF Has(b, "assets")
  THEN Group(friendlyBindingNames.assets,
             << Entry("Binding", Get(b, "assets").binding) >>)
  ELSE << >>

version_metadata_group(b, ctx) ==
  IF Has(b, "version_metadata")
  THEN Group(friendlyBindingNames.version_metadata,
         << Entry("Name",
              addSuffix(ctx, Str(Get(b, "version_metadata").binding), Undef)) >>)
  ELSE << >>

\* unsafe?.bindings !== undefined && unsafe.bindings.length > 0
unsafe_bindings_group(b, ctx) ==
  IF Has(b, "unsafe") /\ Get(b, "unsafe").bindings.t # "undefined"
     /\ Len(Get(b, "unsafe").bindings.items) > 0
  THEN Group(friendlyBindingNames.unsafe,
         Map(LAMBDA item : Entry(item.type,
               addSuffix(ctx, Str(item.name), Undef)),
             Get(b, "unsafe").bindings.items))
  ELSE << >>

varValue(value) ==
  IF value.t = "string" THEN "\"" \o truncate(value.v) \o "\""
  ELSE IF value.t = "object" THEN value.pretty
  ELSE truncate(value.text)

vars_group(b) ==
  IF Has(b, "vars") /\ Len(Get(b, "vars")) > 0
  THEN Group(friendlyBindingNames.vars,
         Map(LAMBDA kv : Entry(kv.key, varValue(kv.value)), Get(b, "vars")))
  ELSE << >>

wasm_modules_group(b, ctx) ==
  IF Has(b, "wasm_modules") /\ Len(Get(b, "wasm_modules")) > 0
  THEN Group(friendlyBindingNames.wasm_modules,
         Map(LAMBDA kv : Entry(kv.key,
               addSuffix(ctx,
                 Str(IF kv.value.t = "string" THEN truncate(kv.value.v)
                     ELSE "<Wasm>"),
                 Undef)),
             Get(b, "wasm_modules")))
  ELSE << >>

dispatch_namespaces_group(b, ctx) ==
  IF Has(b, "dispatch_namespaces") /\ Len(Get(b, "dispatch_namespaces")) > 0
  THEN Group(friendlyBindingNames.dispatch_namespaces,
         Map(LAMBDA item : Entry(item.binding,
               addSuffix(ctx,
                 IF Truthy(item.outbound)
                 THEN Str(item.namespace \o " (outbound -> "
                          \o item.outbound.service \o ")")
                 ELSE Str(item.namespace),
                 Undef)),
             Get(b, "dispatch_namespaces")))
  ELSE << >>

mtls_certificates_group(b, ctx) ==
  IF Has(b, "mtls_certificates") /\ Len(Get(b, "mtls_certificates")) > 0
  THEN Group(friendlyBindingNames.mtls_certificates,
         Map(LAMBDA item : Entry(item.binding,
               addSuffix(ctx, Str(item.certificate_id), Undef)),
             Get(b, "mtls_certificates")))
  ELSE << >>

\* unsafe?.metadata !== undefined; the value is JSON.stringify(value)
unsafe_metadata_group(b, ctx) ==
  IF Has(b, "unsafe") /\ Get(b, "unsafe").metadata.t # "undefined"
  THEN Group(friendlyBindingNames.unsafe,
         Map(LAMBDA kv : Entry(kv.key, addSuffix(ctx, Str(kv.value.json), Undef)),
             Get(b, "unsafe").metadata.items))
  ELSE << >>

\* the groups of one key of the record
groupsOfKey(k, b, ctx, flg) ==
  CASE k = "data_blobs" -> data_blobs_group(b)
    [] k = "durable_objects" -> durable_objects_group(b, ctx)
    [] k = "workflows" -> workflows_group(b, ctx)
    [] k = "kv_namespaces" -> kv_namespaces_group(b, ctx)
    [] k = "send_email" -> send_email_group(b, ctx)
    [] k = "queues" -> queues_group(b, ctx)
    [] k = "d1_databases" -> d1_databases_group(b, ctx)
    [] k = "vectorize" -> vectorize_group(b, ctx)
    [] k = "hyperdrive" -> hyperdrive_group(b, ctx)
    [] k = "r2_buckets" -> r2_buckets_group(b, ctx)
    [] k = "logfwdr" -> logfwdr_group(b, ctx)
    [] k = "secrets_store_secrets" -> secrets_store_secrets_group(b, ctx)
    [] k = "services" -> services_group(b, ctx, flg)
    [] k = "analytics_engine_datasets" -> analytics_engine_datasets_group(b, ctx)
    [] k = "text_blobs" -> text_blobs_group(b, ctx)
    [] k = "browser" -> browser_group(b)
    [] k = "images" -> images_group(b, ctx)
    [] k = "ai" -> ai_group(b, ctx)
    [] k = "pipelines" -> pipelines_group(b, ctx)
    [] k = "assets" -> assets_group(b)
    [] k = "version_metadata" -> version_metadata_group(b, ctx)
    [] k = "unsafe" -> unsafe_bindings_group(b, ctx) \o unsafe_metadata_group(b, ctx)
    [] k = "vars" -> vars_group(b)
    [] k = "wasm_modules" -> wasm_modules_group(b, ctx)
    [] k = "dispatch_namespaces" -> dispatch_namespaces_group(b, ctx)
    [] k = "mtls_certificates" -> mtls_certificates_group(b, ctx)

RECURSIVE groupsInKeyOrder(_, _, _, _)
groupsInKeyOrder(i, b, ctx, flg) ==
  IF i > Len(b) THEN << >>
  ELSE groupsOfKey(b[i].key, b, ctx, flg) \o groupsInKeyOrder(i + 1, b, ctx, flg)

\* walks the keys of the record instead of the fixed order
outputOf_keyOrder(b, ctx, flg) == groupsInKeyOrder(1, b, ctx, flg)

\* the pushes onto output, in the order of the source (lines 274-712)
outputOf(b, ctx, flg) ==
  data_blobs_group(b) \o durable_objects_group(b, ctx)
  \o workflows_group(b, ctx) \o kv_namespaces_group(b, ctx)
  \o send_email_group(b, ctx) \o queues_group(b, ctx)
  \o d1_databases_group(b, ctx) \o vectorize_group(b, ctx)
  \o hyperdrive_group(b, ctx) \o r2_buckets_group(b, ctx)
  \o logfwdr_group(b, ctx) \o secrets_store_secrets_group(b, ctx)
  \o services_group(b, ctx, flg) \o analytics_engine_datasets_group(b, ctx)
  \o text_blobs_group(b, ctx) \o browser_group(b) \o images_group(b, ctx)
  \o ai_group(b, ctx) \o pipelines_group(b, ctx) \o assets_group(b)
  \o version_metadata_group(b, ctx) \o unsafe_bindings_group(b, ctx)
  \o vars_group(b) \o wasm_modules_group(b, ctx)
  \o dispatch_namespaces_group(b, ctx) \o mtls_certificates_group(b, ctx)
  \o unsafe_metadata_group(b, ctx)

----------------------------------------------------------------------------
(* Log messages *)

miniflareNote ==
  "Your Worker and resources are simulated locally via Miniflare. For more information, see: https://developers.cloudflare.com/workers/testing/local-development.\n"

\* (the backticks of the source text are written as quotes)
connectionStatusNote ==
  "\nService bindings, Durable Object bindings, and Tail consumers connect to other 'wrangler dev' processes running locally, with their connection status indicated by "
  \o chalk_green("[connected]") \o " or " \o chalk_red("[not connected]")
  \o ". For more details, refer to https://developers.cloudflare.com/workers/runtime-apis/bindings/service-bindings/#local-development\n"

\* context.name && getFlag("MULTIWORKER")
namedDisplay(ctx, flg) == Truthy(ctx.name) /\ flg.MULTIWORKER

\* `  - ${key}${value ? ":" : ""} ${value}`
entryLine(e) ==
  "  - " \o e.key \o (IF e.value # "" THEN ":" ELSE "") \o " " \o e.value

RECURSIVE groupLines(_)
groupLines(out) ==
  IF Len(out) = 0 THEN << >>
  ELSE << "- " \o out[1].name \o ":" >> \o Map(entryLine, out[1].entries)
       \o groupLines(Tail(out))

bindingsTitle(ctx, flg) ==
  IF Truthy(ctx.provisioning)
  THEN "The following bindings need to be provisioned:"
  ELSE IF namedDisplay(ctx, flg)
  THEN chalk_blue(ctx.name.v) \o " has access to the following bindings:"
  ELSE "Your Worker has access to the following bindings:"

\* lines 714-751: what logger.log receives for the groups
bindingsMessage(out, ctx, flg) ==
  IF Len(out) = 0
  THEN IF namedDisplay(ctx, flg)
       THEN "No bindings found for " \o chalk_blue(ctx.name.v)
       ELSE "No bindings found."
  ELSE join(<< bindingsTitle(ctx, flg) >> \o groupLines(out), "\n")

tailTitle(ctx, flg) ==
  IF namedDisplay(ctx, flg)
  THEN chalk_blue(ctx.name.v)
       \o " is sending Tail events to the following Workers:"
  ELSE "Your Worker is sending Tail events to the following Workers:"

\* tailConsumers: CfTailConsumer[] = []
tailItems(tc) == IF tc.t = "undefined" THEN << >> ELSE tc.items

tail_entries(tc, ctx) ==
  Map(LAMBDA item : tailConsumerLine(ctx, item), tailItems(tc))

\* forgets the tail consumers
connectionStatusOf_noTail(b, tc, ctx, flg) ==
  \/ \E i \in 1..Len(durable_objects_entries(b, ctx)) :
        durable_objects_entries(b, ctx)[i].status
  \/ \E i \in 1..Len(services_entries(b, ctx, flg)) :
        services_entries(b, ctx, flg)[i].status

\* hasConnectionStatus after the whole body: set by any entry that resolved
connectionStatusOf(b, tc, ctx, flg) ==
  LET dos == durable_objects_entries(b, ctx)
      svcs == services_entries(b, ctx, flg)
      tails == tail_entries(tc, ctx)
  IN \/ \E i \in 1..Len(dos) : dos[i].status
     \/ \E i \in 1..Len(svcs) : svcs[i].status
     \/ \E i \in 1..Len(tails) : tails[i].status

\* logger.once.*: only messages not logged before in this process
Once(seen, msgs) == SelectSeq(msgs, LAMBDA m : m \notin seen)

----------------------------------------------------------------------------
(* printBindings(bindings, tailConsumers, context) *)

PrintBindings ==
  /\ pc = "start"
  /\ LET out == outputOf(bindings, context, flags)
         tl == Map(LAMBDA e : e.value, tail_entries(tailConsumers, context))
         status == connectionStatusOf(bindings, tailConsumers, context, flags)
         note1 == IF Len(out) # 0 /\ Truthy(context.local)
                  THEN Once(onceLogs, << miniflareNote >>) ELSE << >>
         msg1 == << bindingsMessage(out, context, flags) >>
         msg2 == IF Len(tl) > 0
                 THEN << tailTitle(context, flags) \o "\n" \o join(tl, "\n") >>
                 ELSE << >>
         note2 == IF status
                  THEN Once(onceLogs, << connectionStatusNote >>) ELSE << >>
     IN /\ output' = out
        /\ tailLines' = tl
        /\ hasConnectionStatus' = status
        /\ logs' = logs \o note1 \o msg1 \o msg2 \o note2
        /\ onceLogs' = onceLogs \cup {note1[i] : i \in 1..Len(note1)}
                                \cup {note2[i] : i \in 1..Len(note2)}
  /\ pc' = "done"
  /\ UNCHANGED <<bindings, tailConsumers, context, flags>>

Next == PrintBindings

----------------------------------------------------------------------------
(* Inputs *)

\* most list items and most keys of the bindings record in one configuration
MaxItems == 2
MaxKeys == 2

Arr(items) == [t |-> "array", items |-> items]
Obj(workers) == [t |-> "object", workers |-> workers]

Key(i) == "B" \o <<"1", "2", "3", "4", "5", "6", "7", "8", "9">>[i]

\* binding keys are unique within a kind: the i-th item gets the i-th key
Rekey(seq, field) == [i \in 1..Len(seq) |-> [seq[i] EXCEPT ![field] = Key(i)]]

ListsUpTo(S, n) == UNION {[1..k -> S] : k \in 0..n}

ServiceNames == {"svc-a", "svc-b"}
ClassNames == {"Counter", "Other"}
OptBool == {Undef, Bool(TRUE), Bool(FALSE)}

RegistryDefinition(classes, entrypoints) ==
  [ t |-> "object",
    durableObjects |-> [i \in 1..Len(classes) |-> [className |-> classes[i]]],
    entrypointAddresses |-> entrypoints ]

Registries ==
  { Undef, Null,
    Obj([n \in {} |-> Undef]),
    Obj([n \in {"svc-a"} |->
           RegistryDefinition(<<"Counter">>, [t |-> "object", keys |-> {"ep"}])]),
    Obj([n \in {"svc-a", "svc-b"} |->
           IF n = "svc-a"
           THEN RegistryDefinition(<< >>, Undef)
           ELSE RegistryDefinition(<<"Other", "Counter">>,
                                   [t |-> "object", keys |-> {}])]) }

DurableObjectItems ==
  [ name : {""}, class_name : ClassNames,
    script_name : {Undef} \cup {Str(n) : n \in ServiceNames} ]

ServiceItems ==
  [ binding : {""}, service : ServiceNames,
    entrypoint : {Undef, Str("ep")}, remote : {Undef, Bool(TRUE)} ]

TailConsumerItems == [ service : ServiceNames ]

Context(registry, local, imagesLocalMode, name, provisioning) ==
  [ registry |-> registry, local |-> local, imagesLocalMode |-> imagesLocalMode,
    name |-> name, provisioning |-> provisioning ]

NoFlags == [MIXED_MODE |-> FALSE, MULTIWORKER |-> FALSE]

\* configurations of the peer-service kinds, against every registry
InitPeer ==
  \E nd \in 0..MaxItems, ns \in 0..MaxItems, nt \in 0..MaxItems :
    /\ nd + ns + nt <= MaxItems
    /\ \E d \in [1..nd -> DurableObjectItems], s \in [1..ns -> ServiceItems],
          tc \in {Arr(t) : t \in [1..nt -> TailConsumerItems]}
                   \cup (IF nt = 0 THEN {Undef} ELSE {}) :
         /\ bindings =
              << [key |-> "services", value |-> Rekey(s, "binding")],
                 [key |-> "durable_objects",
                  value |-> [bindings |-> Rekey(d, "name")]] >>
         /\ tailConsumers = tc
    /\ \E registry \in Registries, mixed \in BOOLEAN,
          mode \in {<<Undef, Undef>>, <<Bool(TRUE), Undef>>,
                    <<Bool(TRUE), Bool(TRUE)>>} :
         /\ context = Context(registry, mode[1], Undef, Undef, mode[2])
         /\ flags = [MIXED_MODE |-> mixed, MULTIWORKER |-> FALSE]

KvItems ==
  [ binding : {""}, id : {Undef, Sym, Str("kv-id")}, remote : OptBool ]

QueueItems ==
  [ binding : {""}, queue_name : {Str("my-queue")}, remote : OptBool ]

R2Items ==
  [ binding : {""}, bucket_name : {Sym, Str("my-bucket")},
    jurisdiction : {Undef, Str("eu")}, remote : OptBool ]

WorkflowItems ==
  [ binding : {""}, class_name : {"MyWorkflow"},
    script_name : {Undef, Str("svc-a")}, remote : OptBool ]

VectorizeItems ==
  [ binding : {""}, index_name : {Str("my-index")}, remote : OptBool ]

D1Items ==
  [ binding : {""}, database_name : {Undef, Str("db")},
    database_id : {Undef, Sym, Str("local"), Str("d1-id")},
    preview_database_id : {Undef, Str("prev-id")},
    remote : {Undef, Bool(TRUE)} ]

\* the lists tried for one kind that carries a remote flag
ResourceLists(kind) ==
  CASE kind = "kv_namespaces" -> ListsUpTo(KvItems, MaxItems)
    [] kind = "queues" -> ListsUpTo(QueueItems, MaxItems)
    [] kind = "r2_buckets" -> ListsUpTo(R2Items, MaxItems)
    [] kind = "workflows" -> ListsUpTo(WorkflowItems, MaxItems)
    [] kind = "vectorize" -> ListsUpTo(VectorizeItems, MaxItems)
    [] kind = "d1_databases" -> {<< >>} \cup {<<x>> : x \in D1Items}

ResourceKinds ==
  {"kv_namespaces", "queues", "r2_buckets", "workflows", "vectorize",
   "d1_databases"}

\* configurations of one kind that carries a remote flag, in every context
InitResource ==
  /\ \E kind \in ResourceKinds :
       \E list \in ResourceLists(kind) :
         bindings = << [key |-> kind, value |-> Rekey(list, "binding")] >>
  /\ tailConsumers = Undef
  /\ \E local \in OptBool, provisioning \in OptBool :
       context = Context(Undef, local, Undef, Undef, provisioning)
  /\ flags = NoFlags

Kinds == DOMAIN friendlyBindingNames

KV(k, v) == [key |-> k, value |-> v]

\* a populated payload of each kind: two entries where the kind takes several
Populated(kind) ==
  CASE kind = "data_blobs" ->
         << KV("B1", Str("blob")), KV("B2", [t |-> "buffer"]) >>
    [] kind = "durable_objects" ->
         [bindings |->
            << [name |-> "B1", class_name |-> "Counter", script_name |-> Undef],
               [name |-> "B2", class_name |-> "Other",
                script_name |-> Str("svc-a")] >>]
    [] kind = "workflows" ->
         << [binding |-> "B1", class_name |-> "MyWorkflow",
             script_name |-> Undef, remote |-> Undef],
            [binding |-> "B2", class_name |-> "MyWorkflow",
             script_name |-> Str("svc-a"), remote |-> Undef] >>
    [] kind = "kv_namespaces" ->
         << [binding |-> "B1", id |-> Str("kv-id"), remote |-> Undef],
            [binding |-> "B2", id |-> Sym, remote |-> Bool(TRUE)] >>
    [] kind = "send_email" ->
         << [name |-> "B1", destination_address |-> Str("a@example.com"),
             allowed_destination_addresses |-> Undef],
            [name |-> "B2", destination_address |-> Undef,
             allowed_destination_addresses |->
               Arr(<<"b@example.com", "c@example.com">>)] >>
    [] kind = "queues" ->
         << [binding |-> "B1", queue_name |-> Str("my-queue"), remote |-> Undef],
            [binding |-> "B2", queue_name |-> Str("my-queue"),
             remote |-> Bool(TRUE)] >>
    [] kind = "d1_databases" ->
         << [binding |-> "B1", database_name |-> Str("db"),
             database_id |-> Str("d1-id"),
             preview_database_id |-> Str("prev-id"), remote |-> Undef],
            [binding |-> "B2", database_name |-> Undef,
             database_id |-> Str("local"),
             preview_database_id |-> Undef, remote |-> Bool(TRUE)] >>
    [] kind = "vectorize" ->
         << [binding |-> "B1", index_name |-> Str("my-index"), remote |-> Undef],
            [binding |-> "B2", index_name |-> Str("my-index"),
             remote |-> Bool(TRUE)] >>
    [] kind = "hyperdrive" ->
         << [binding |-> "B1", id |-> Str("hd-id")],
            [binding |-> "B2", id |-> Sym] >>
    [] kind = "r2_buckets" ->
         << [binding |-> "B1", bucket_name |-> Str("my-bucket"),
             jurisdiction |-> Undef, remote |-> Undef],
            [binding |-> "B2", bucket_name |-> Sym,
             jurisdiction |-> Str("eu"), remote |-> Bool(TRUE)] >>
    [] kind = "logfwdr" ->
         [bindings |->
            << [name |-> "B1", destination |-> Str("dest")],
               [name |-> "B2", destination |-> Str("dest")] >>]
    [] kind = "secrets_store_secrets" ->
         << [binding |-> "B1", store_id |-> "store", secret_name |-> "secret"],
            [binding |-> "B2", store_id |-> "store", secret_name |-> "secret"] >>
    [] kind = "services" ->
         << [binding |-> "B1", service |-> "svc-a", entrypoint |-> Undef,
             remote |-> Bool(FALSE)],
            [binding |-> "B2", service |-> "svc-b", entrypoint |-> Str("ep"),
             remote |-> Bool(TRUE)] >>
    [] kind = "analytics_engine_datasets" ->
         << [binding |-> "B1", dataset |-> Undef],
            [binding |-> "B2", dataset |-> Str("my-dataset")] >>
    [] kind = "text_blobs" ->
         << KV("B1", Str("text")), KV("B2", Str("text")) >>
    [] kind = "browser" -> [binding |-> "BROWSER"]
    [] kind = "images" -> [binding |-> "IMAGES"]
    [] kind = "ai" -> [binding |-> "AI", staging |-> Bool(TRUE)]
    [] kind = "pipelines" ->
         << [binding |-> "B1", pipeline |-> "my-pipeline"],
            [binding |-> "B2", pipeline |-> "my-pipeline"] >>
    [] kind = "assets" -> [binding |-> "ASSETS"]
    [] kind = "version_metadata" -> [binding |-> "VERSION"]
    [] kind = "unsafe" ->
         [ bindings |-> Arr(<< [name |-> "B1", type |-> "T1"],
                               [name |-> "B2", type |-> "T2"] >>),
           metadata |-> Arr(<< KV("B1", [t |-> "object", json |-> "{\"a\":1}"]),
                               KV("B2", [t |-> "string", json |-> "\"x\""]) >>) ]
    [] kind = "vars" ->
         << KV("B1", Str("bar")),
            KV("B2", [t |-> "object", pretty |-> "{\n \"a\": 1\n}"]) >>
    [] kind = "wasm_modules" ->
         << KV("B1", Str("module.wasm")), KV("B2", [t |-> "buffer"]) >>
    [] kind = "dispatch_namespaces" ->
         << [binding |-> "B1", namespace |-> "ns", outbound |-> Undef],
            [binding |-> "B2", namespace |-> "ns",
             outbound |-> [t |-> "object", service |-> "svc-a"]] >>
    [] kind = "mtls_certificates" ->
         << [binding |-> "B1", certificate_id |-> "cert-id"],
            [binding |-> "B2", certificate_id |-> "cert-id"] >>

\* the kinds whose payload is a single record: present means populated
SingletonKinds == {"browser", "images", "ai", "assets", "version_metadata"}

\* the payloads tried for a kind: populated, and empty where the shape allows
Payloads(kind) ==
  CASE kind \in SingletonKinds ->
         IF kind = "ai"
         THEN {Populated(kind), [binding |-> "AI", staging |-> Undef]}
         ELSE {Populated(kind)}
    [] kind \in {"durable_objects", "logfwdr"} ->
         {Populated(kind), [bindings |-> << >>]}
    [] kind = "unsafe" ->
         [ bindings : {Undef, Arr(<< >>), Populated(kind).bindings},
           metadata : {Undef, Arr(<< >>), Populated(kind).metadata} ]
    [] OTHER -> {Populated(kind), << >>}

\* the bindings records with the given keys in the given order: every
\* payload of the first key, the later keys populated
Records(keys) ==
  IF Len(keys) = 0 THEN {<< >>}
  ELSE {<< KV(keys[1], p) >>
          \o [i \in 1..(Len(keys) - 1) |-> KV(keys[i + 1], Populated(keys[i + 1]))] :
          p \in Payloads(keys[1])}

KeySeqs ==
  UNION {{ks \in [1..n -> Kinds] : \A i, j \in 1..n : i # j => ks[i] # ks[j]} :
           n \in 0..MaxKeys}

\* configurations over all the kinds, keys in every order
InitGroups ==
  /\ \E ks \in KeySeqs : \E r \in Records(ks) : bindings = r
  /\ tailConsumers = Undef
  /\ context = Context(Undef, Bool(TRUE), Undef, Undef, Undef)
  /\ flags = NoFlags

\* configurations of one kind, any of them, in every context
InitSingle ==
  /\ \E kind \in Kinds : \E p \in Payloads(kind) : bindings = << KV(kind, p) >>
  /\ tailConsumers = Arr(<< >>)
  /\ \E local \in OptBool, provisioning \in OptBool,
        imagesLocalMode \in OptBool,
        registry \in {Null, Obj([n \in {"svc-a"} |-> RegistryDefinition(<< >>, Undef)])},
        named \in {<<Undef, FALSE>>, <<Str("my-worker"), FALSE>>,
                   <<Str("my-worker"), TRUE>>} :
       /\ context = Context(registry, local, imagesLocalMode, named[1], provisioning)
       /\ flags = [MIXED_MODE |-> FALSE, MULTIWORKER |-> named[2]]

\* strings of 39, 40, 41 and 60 characters
Chars39 == "abcdefghijklmnopqrstuvwxyz0123456789ABC"
Chars40 == Chars39 \o "D"
Chars41 == Chars40 \o "E"
Chars60 == Chars41 \o "FGHIJKLMNOPQRSTUVWX"

MapKinds == {"data_blobs", "text_blobs", "wasm_modules", "vars"}

TextValues == {Str(""), Str("bar"), Str(Chars39), Str(Chars40), Str(Chars41),
               Str(Chars60)}

\* the values tried under a key of a map kind
MapValues(kind) ==
  CASE kind = "text_blobs" -> TextValues
    [] kind \in {"data_blobs", "wasm_modules"} -> TextValues \cup {[t |-> "buffer"]}
    [] kind = "vars" ->
         TextValues
         \cup {[t |-> "number", text |-> "42"], [t |-> "boolean", text |-> "true"],
               [t |-> "object", pretty |-> "{\n \"a\": 1\n}"]}

\* configurations of one map kind, values around the display budget
InitMaps ==
  /\ \E kind \in MapKinds : \E v \in MapValues(kind) :
       bindings = << KV(kind, << KV("B1", v), KV("B2", Str("bar")) >>) >>
  /\ tailConsumers = Undef
  /\ \E local \in {Undef, Bool(TRUE)}, provisioning \in {Undef, Bool(TRUE)} :
       context = Context(Undef, local, Undef, Undef, provisioning)
  /\ flags = NoFlags

Init ==
  /\ pc = "start"
  /\ output = << >>
  /\ tailLines = << >>
  /\ hasConnectionStatus = FALSE
  /\ logs = << >>
  /\ onceLogs = {}
  /\ (InitPeer \/ InitResource \/ InitGroups \/ InitSingle \/ InitMaps)

Spec == Init /\ [][Next]_vars

----------------------------------------------------------------------------
(* Vocabulary of the properties *)

Done == pc = "done"

ConnectedMarker(v) ==
  Contains(v, "[connected]") \/ Contains(v, "[connected to local resource]")
NotConnectedMarker(v) == Contains(v, "[not connected]")
HasMarker(v) == ConnectedMarker(v) \/ NotConnectedMarker(v)

SimulatedSuffix == " [simulated locally]"
RemoteSuffix == " [connected to remote resource]"
HasSuffix(v) == Contains(v, SimulatedSuffix) \/ Contains(v, RemoteSuffix)

\* the payload of a kind in the input, an empty list when the kind is absent
DurableObjects ==
  IF Has(bindings, "durable_objects")
  THEN Get(bindings, "durable_objects").bindings ELSE << >>
ListOf(kind) == IF Has(bindings, kind) THEN Get(bindings, kind) ELSE << >>
TailConsumers == IF tailConsumers.t = "array" THEN tailConsumers.items ELSE << >>

\* the value rendered for the i-th entry of the group with the given name
HasGroup(name) == \E g \in 1..Len(output) : output[g].name = name
GroupOf(name) == output[CHOOSE g \in 1..Len(output) : output[g].name = name]
ValueOf(name, i) == GroupOf(name).entries[i].value

LocalDev == Truthy(context.local)
Provisioning == Truthy(context.provisioning)
RegistryPresent == context.registry.t = "object"

\* the registry lists the service, and under it the class / the entrypoint
Registered(svc) == svc \in DOMAIN context.registry.workers
ExposesClass(svc, cls) ==
  /\ Registered(svc)
  /\ \E d \in DOMAIN context.registry.workers[svc].durableObjects :
        context.registry.workers[svc].durableObjects[d].className = cls
ExposesEntrypoint(svc, ep) ==
  /\ Registered(svc)
  /\ context.registry.workers[svc].entrypointAddresses.t = "object"
  /\ ep \in context.registry.workers[svc].entrypointAddresses.keys

\* the text of a service binding before any marker or suffix
ServiceText(item) ==
  IF Truthy(item.entrypoint) THEN item.service \o "#" \o item.entrypoint.v
  ELSE item.service

----------------------------------------------------------------------------
(* C1: with local dev and a present registry, a Durable Object binding that  *)
(* has a script_name carries the connected marker exactly when the registry  *)
(* lists script_name with a durable object of the binding's class_name, and  *)
(* the not-connected marker in every other case.                             *)
C1_DurableObjectMarker ==
  (Done /\ LocalDev /\ RegistryPresent) =>
    \A i \in 1..Len(DurableObjects) :
      LET item == DurableObjects[i]
          v == ValueOf("Durable Objects", i)
      IN Truthy(item.script_name) =>
           /\ ConnectedMarker(v) <=> ExposesClass(item.script_name.v, item.class_name)
           /\ NotConnectedMarker(v) <=> ~ExposesClass(item.script_name.v, item.class_name)

\* one binding connected, another whose service is registered without the class
C1_Witness ==
  /\ Done /\ LocalDev /\ RegistryPresent
  /\ \E i, j \in 1..Len(DurableObjects) :
       /\ Truthy(DurableObjects[i].script_name)
       /\ Truthy(DurableObjects[j].script_name)
       /\ ConnectedMarker(ValueOf("Durable Objects", i))
       /\ Registered(DurableObjects[j].script_name.v)
       /\ NotConnectedMarker(ValueOf("Durable Objects", j))

(* C2: with local dev and a present registry, a service binding without      *)
(* remote: true is marked connected exactly when the registry lists the      *)
(* service and, if an entrypoint is named, lists that entrypoint under it;   *)
(* a tail consumer exactly when the registry lists its service; otherwise    *)
(* the entry is marked not connected.                                        *)
C2_ServiceAndTailMarker ==
  (Done /\ LocalDev /\ RegistryPresent) =>
    /\ \A i \in 1..Len(ListOf("services")) :
         LET item == ListOf("services")[i]
             v == ValueOf("Services", i)
             up == /\ Registered(item.service)
                   /\ Truthy(item.entrypoint) =>
                        ExposesEntrypoint(item.service, item.entrypoint.v)
         IN ~Truthy(item.remote) =>
              /\ ConnectedMarker(v) <=> up
              /\ NotConnectedMarker(v) <=> ~up
    /\ Len(tailLines) = Len(TailConsumers)
    /\ \A i \in 1..Len(TailConsumers) :
         /\ ConnectedMarker(tailLines[i]) <=> Registered(TailConsumers[i].service)
         /\ NotConnectedMarker(tailLines[i]) <=> ~Registered(TailConsumers[i].service)

\* a registered service whose named entrypoint is missing, next to a tail
\* consumer that is connected
C2_Witness ==
  /\ Done /\ LocalDev /\ RegistryPresent
  /\ \E i \in 1..Len(ListOf("services")) :
       /\ ~Truthy(ListOf("services")[i].remote)
       /\ Truthy(ListOf("services")[i].entrypoint)
       /\ Registered(ListOf("services")[i].service)
       /\ NotConnectedMarker(ValueOf("Services", i))
  /\ \E i \in 1..Len(TailConsumers) : ConnectedMarker(tailLines[i])

\* some entry of the render asks for connectivity resolution
PeerReferenceExists ==
  \/ \E i \in 1..Len(DurableObjects) : Truthy(DurableObjects[i].script_name)
  \/ \E i \in 1..Len(ListOf("services")) : ~Truthy(ListOf("services")[i].remote)
  \/ Len(TailConsumers) > 0

\* every value the render shows: the entries of the groups and the tail lines
ShownValuesAndLines ==
  UNION {{output[g].entries[e].value : e \in 1..Len(output[g].entries)} :
           g \in 1..Len(output)}
  \cup {tailLines[i] : i \in 1..Len(tailLines)}

Logged(msg) == \E i \in 1..Len(logs) : logs[i] = msg

(* C3: when the registry is absent or null, no peer-service reference        *)
(* (Durable Object with script_name, non-remote service binding, tail        *)
(* consumer) carries a connected or a not-connected marker.                  *)
C3_NoMarkerWithoutRegistry ==
  (Done /\ context.registry.t \in {"undefined", "null"}) =>
    /\ \A i \in 1..Len(DurableObjects) :
         Truthy(DurableObjects[i].script_name) =>
           ~HasMarker(ValueOf("Durable Objects", i))
    /\ \A i \in 1..Len(ListOf("services")) :
         ~Truthy(ListOf("services")[i].remote) => ~HasMarker(ValueOf("Services", i))
    /\ \A i \in 1..Len(tailLines) : ~HasMarker(tailLines[i])

(* C4: after a render hasConnectionStatus is true exactly when connectivity  *)
(* resolution was invoked for some entry: local dev, a registry that is not  *)
(* null, and at least one Durable Object binding with script_name, service   *)
(* binding without remote: true, or tail consumer; and the footnote is       *)
(* logged exactly when it is true.                                           *)
C4_HasConnectionStatus ==
  Done =>
    /\ hasConnectionStatus <=>
         (LocalDev /\ context.registry.t # "null" /\ PeerReferenceExists)
    /\ hasConnectionStatus <=> Logged(connectionStatusNote)

\* resolution invoked without a registry to resolve against
C4_Witness ==
  /\ Done /\ hasConnectionStatus /\ context.registry.t = "undefined"
  /\ Len(TailConsumers) > 0 /\ Logged(connectionStatusNote)

\* the peer references of the render are all service bindings with remote: true
OnlyRemoteServices ==
  /\ Len(ListOf("services")) > 0
  /\ ~PeerReferenceExists

(* C5 as stated: a service binding with remote: true gets no marker, does    *)
(* not set hasConnectionStatus, and its value ends in the remote suffix for  *)
(* every combination of local, provisioning and registry.                    *)
C5_RemoteSuffixUnconditional ==
  Done =>
    /\ \A i \in 1..Len(ListOf("services")) :
         LET item == ListOf("services")[i] IN
         Truthy(item.remote) =>
           /\ ~HasMarker(ValueOf("Services", i))
           /\ ValueOf("Services", i) = ServiceText(item) \o RemoteSuffix
    /\ OnlyRemoteServices => ~hasConnectionStatus

(* C5 amended: a service binding with remote: true gets no marker and does   *)
(* not set hasConnectionStatus, for every combination of local, provisioning *)
(* and registry; its value carries the remote suffix exactly when local is   *)
(* true and provisioning is not, and is the bare service text otherwise.     *)
C5_RemoteServiceSuffix ==
  Done =>
    /\ \A i \in 1..Len(ListOf("services")) :
         LET item == ListOf("services")[i] IN
         Truthy(item.remote) =>
           /\ ~HasMarker(ValueOf("Services", i))
           /\ ValueOf("Services", i) =
                IF LocalDev /\ ~Provisioning
                THEN ServiceText(item) \o RemoteSuffix
                ELSE ServiceText(item)
    /\ OnlyRemoteServices => ~hasConnectionStatus

\* a remote service binding whose service the registry lists, in local dev
C5_Witness ==
  /\ Done /\ LocalDev /\ ~Provisioning /\ RegistryPresent
  /\ OnlyRemoteServices /\ ~hasConnectionStatus
  /\ \E i \in 1..Len(ListOf("services")) :
       /\ Registered(ListOf("services")[i].service)
       /\ EndsWith(ValueOf("Services", i), RemoteSuffix)

(* C6: no value of an entry and no tail-consumer line that carries a         *)
(* connectivity marker also contains ' [simulated locally]' or               *)
(* ' [connected to remote resource]'.                                        *)
C6_SuffixPrecedence ==
  Done => \A v \in ShownValuesAndLines : HasMarker(v) => ~HasSuffix(v)

\* a marked service binding next to a suffixed one in the same render
C6_Witness ==
  /\ Done
  /\ \E i, j \in 1..Len(ListOf("services")) :
       /\ HasMarker(ValueOf("Services", i))
       /\ HasSuffix(ValueOf("Services", j))

----------------------------------------------------------------------------
\* value of a string-or-symbol identifier once normalized
Norm(x) == IF x.t = "string" THEN x.v ELSE ""

\* the kinds whose entries follow the remote flag, with vectorize
RemoteFlagKinds ==
  {"kv_namespaces", "queues", "d1_databases", "r2_buckets", "workflows"}

\* the workflows that name a script take no suffix at all
TakesSuffix(kind, item) == kind = "workflows" => ~Truthy(item.script_name)

\* the resource identifier of an item, before any suffix
Identifier(kind, item) ==
  CASE kind = "kv_namespaces" -> Norm(item.id)
    [] kind = "queues" -> Norm(item.queue_name)
    [] kind = "d1_databases" -> Norm(d1DatabaseValue(item))
    [] kind = "r2_buckets" ->
         Norm(item.bucket_name)
         \o (IF item.jurisdiction.t = "string"
             THEN " (" \o item.jurisdiction.v \o ")" ELSE "")
    [] kind = "workflows" -> item.class_name
    [] kind = "vectorize" -> Norm(item.index_name)

AllEntryValues ==
  UNION {{output[g].entries[e].value : e \in 1..Len(output[g].entries)} :
           g \in 1..Len(output)}

(* C7: when provisioning is true, every value produced through the suffix    *)
(* function is the undecorated value: the entries of the kinds with a remote *)
(* flag equal their identifier, and no entry value of any kind contains      *)
(* ' [simulated locally]' or ' [connected to remote resource]'.              *)
C7_NoSuffixWhenProvisioning ==
  (Done /\ Provisioning) =>
    /\ \A kind \in RemoteFlagKinds \cup {"vectorize"} :
         \A i \in 1..Len(ListOf(kind)) :
           TakesSuffix(kind, ListOf(kind)[i]) =>
             ValueOf(friendlyBindingNames[kind], i) = Identifier(kind, ListOf(kind)[i])
    /\ \A v \in AllEntryValues : ~HasSuffix(v)

\* provisioning in local dev, with a remote and a simulated KV namespace
C7_Witness ==
  /\ Done /\ Provisioning /\ LocalDev
  /\ \E i, j \in 1..Len(ListOf("kv_namespaces")) :
       /\ Truthy(ListOf("kv_namespaces")[i].remote)
       /\ ~Truthy(ListOf("kv_namespaces")[j].remote)
       /\ ValueOf("KV Namespaces", i) = "kv-id"

\* the suffix the remote flag selects
SuffixFor(remote) == IF Truthy(remote) THEN RemoteSuffix ELSE SimulatedSuffix

(* C8 as stated: in local dev without provisioning, every entry of a kind    *)
(* that carries a remote flag - KV namespaces, queues, D1 databases, R2      *)
(* buckets, workflows without script_name, and Vectorize indexes - is the    *)
(* identifier (empty when missing or symbolic) followed by                   *)
(* ' [simulated locally]' when remote is not true and by                     *)
(* ' [connected to remote resource]' when it is.                             *)
C8_SuffixFollowsRemoteEverywhere ==
  (Done /\ LocalDev /\ ~Provisioning) =>
    \A kind \in RemoteFlagKinds \cup {"vectorize"} :
      \A i \in 1..Len(ListOf(kind)) :
        LET item == ListOf(kind)[i] IN
        TakesSuffix(kind, item) =>
          ValueOf(friendlyBindingNames[kind], i)
            = Identifier(kind, item) \o SuffixFor(item.remote)

(* C8 amended: the same for KV namespaces, queues, D1 databases, R2 buckets  *)
(* and workflows without script_name; a Vectorize index is the index name    *)
(* followed by ' [connected to remote resource]' whatever its remote flag.   *)
C8_SuffixFollowsRemote ==
  (Done /\ LocalDev /\ ~Provisioning) =>
    /\ \A kind \in RemoteFlagKinds :
         \A i \in 1..Len(ListOf(kind)) :
           LET item == ListOf(kind)[i] IN
           TakesSuffix(kind, item) =>
             ValueOf(friendlyBindingNames[kind], i)
               = Identifier(kind, item) \o SuffixFor(item.remote)
    /\ \A i \in 1..Len(ListOf("vectorize")) :
         ValueOf("Vectorize Indexes", i)
           = Identifier("vectorize", ListOf("vectorize")[i]) \o RemoteSuffix

\* a remote KV namespace without a usable id next to a simulated one
C8_Witness ==
  /\ Done /\ LocalDev /\ ~Provisioning
  /\ \E i, j \in 1..Len(ListOf("kv_namespaces")) :
       /\ ListOf("kv_namespaces")[i].id.t # "string"
       /\ ValueOf("KV Namespaces", i) = RemoteSuffix
       /\ ListOf("kv_namespaces")[j].remote.t = "boolean"
       /\ ~ListOf("kv_namespaces")[j].remote.v
       /\ ValueOf("KV Namespaces", j) = "kv-id" \o SimulatedSuffix

----------------------------------------------------------------------------
\* the payload of a kind is absent or has nothing in it
PayloadEmpty(kind) ==
  \/ ~Has(bindings, kind)
  \/ CASE kind \in SingletonKinds -> FALSE
       [] kind \in {"durable_objects", "logfwdr"} ->
            Len(Get(bindings, kind).bindings) = 0
       [] kind = "unsafe" ->
            /\ \/ Get(bindings, kind).bindings.t = "undefined"
               \/ Len(Get(bindings, kind).bindings.items) = 0
            /\ \/ Get(bindings, kind).metadata.t = "undefined"
               \/ Len(Get(bindings, kind).metadata.items) = 0
       [] OTHER -> Len(Get(bindings, kind)) = 0

\* the 'No bindings found' outcome, in either wording
NoBindingsFound ==
  \E i \in 1..Len(logs) :
    Len(logs[i]) >= 17 /\ SubSeq(logs[i], 1, 17) = "No bindings found"

(* C9: a kind whose payload is absent or empty (an unsafe record with an     *)
(* empty bindings list or a metadata record without keys included) gives no  *)
(* group; every group has at least one entry; and when every payload is      *)
(* absent or empty there are no groups and 'No bindings found' is logged.    *)
C9_NoGroupForEmptyPayload ==
  Done =>
    /\ \A kind \in Kinds :
         PayloadEmpty(kind) => ~HasGroup(friendlyBindingNames[kind])
    /\ \A g \in 1..Len(output) : Len(output[g].entries) >= 1
    /\ (\A kind \in Kinds : PayloadEmpty(kind)) =>
         (Len(output) = 0 /\ NoBindingsFound)

\* the blocks of printBindings in the order they push, by group name
GroupOrder ==
  << "Data Blobs", "Durable Objects", "Workflows", "KV Namespaces",
     "Send Email", "Queues", "D1 Databases", "Vectorize Indexes",
     "Hyperdrive Configs", "R2 Buckets", "logfwdr", "Secrets Store Secrets",
     "Services", "Analytics Engine Datasets", "Text Blobs", "Browser",
     "Images", "AI", "Pipelines", "Assets", "Worker Version Metadata",
     "Unsafe Metadata", "Vars", "Wasm Modules", "Dispatch Namespaces",
     "mTLS Certificates", "Unsafe Metadata" >>

\* a is b with some elements left out
RECURSIVE IsSubsequence(_, _)
IsSubsequence(a, b) ==
  IF Len(a) = 0 THEN TRUE
  ELSE IF Len(b) = 0 THEN FALSE
  ELSE IF a[1] = b[1] THEN IsSubsequence(Tail(a), Tail(b))
  ELSE IsSubsequence(a, Tail(b))

GroupNames == [g \in 1..Len(output) |-> output[g].name]

\* the position of a kind in the priority order
Priority(name) == CHOOSE i \in 1..Len(GroupOrder) : GroupOrder[i] = name

\* the keys of a kind's payload, in the payload's order
PayloadKeys(kind) ==
  CASE kind \in {"durable_objects", "logfwdr"} ->
         [i \in 1..Len(Get(bindings, kind).bindings) |->
            Get(bindings, kind).bindings[i].name]
    [] kind = "send_email" ->
         [i \in 1..Len(Get(bindings, kind)) |-> Get(bindings, kind)[i].name]
    [] kind \in {"data_blobs", "text_blobs", "vars", "wasm_modules"} ->
         [i \in 1..Len(Get(bindings, kind)) |-> Get(bindings, kind)[i].key]
    [] OTHER ->
         [i \in 1..Len(Get(bindings, kind)) |-> Get(bindings, kind)[i].binding]

EntryKeys(group) == [e \in 1..Len(group.entries) |-> group.entries[e].key]

\* the entries of every group of a list or map kind follow the payload
EntriesKeepPayloadOrder ==
  \A kind \in Kinds \ (SingletonKinds \cup {"unsafe"}) :
    HasGroup(friendlyBindingNames[kind]) =>
      EntryKeys(GroupOf(friendlyBindingNames[kind])) = PayloadKeys(kind)

(* C10 as stated: at most one group per binding kind, the groups in the      *)
(* fixed kind-priority order whatever the key order of the bindings record,  *)
(* the entries of a group in the payload's own order.  Stated over the       *)
(* renders without an empty group, which are those C9 is not about.          *)
C10_OneGroupPerKindInOrder ==
  (Done /\ \A g \in 1..Len(output) : Len(output[g].entries) >= 1) =>
    /\ \A g, h \in 1..Len(output) : g # h => output[g].name # output[h].name
    /\ \A g, h \in 1..Len(output) :
         g < h => Priority(output[g].name) < Priority(output[h].name)
    /\ EntriesKeepPayloadOrder

(* C10 amended: every kind with a populated payload gives a group, and at    *)
(* most one, except that the unsafe kind gives up to two groups of the same  *)
(* name (its bindings list, and after the Vars .. mTLS groups its metadata   *)
(* record); the groups are the blocks' groups in the fixed order of the      *)
(* blocks whatever the key order of the bindings record; the entries of a    *)
(* group keep the payload's order.                                           *)
C10_GroupsInFixedOrder ==
  Done =>
    /\ \A kind \in Kinds :
         ~PayloadEmpty(kind) => HasGroup(friendlyBindingNames[kind])
    /\ IsSubsequence(GroupNames, GroupOrder)
    /\ \A g, h \in 1..Len(output) :
         (g # h /\ output[g].name = output[h].name) =>
           output[g].name = "Unsafe Metadata"
    /\ EntriesKeepPayloadOrder

\* two populated kinds whose keys come in the opposite order in the record
C10_Witness ==
  /\ Done /\ Len(bindings) = 2 /\ Len(output) = 2
  /\ output[1].name = friendlyBindingNames[bindings[2].key]
  /\ output[2].name = friendlyBindingNames[bindings[1].key]
  /\ output[1].name # output[2].name
  /\ Len(output[1].entries) = 2

----------------------------------------------------------------------------
\* the text a map value is truncated from: the string itself, or the scalar
\* of a var written out
IsText(kind, v) ==
  v.t = "string" \/ (kind = "vars" /\ v.t \in {"number", "boolean"})
TextOf(v) == IF v.t = "string" THEN v.v ELSE v.text

\* the truncation property of the claim, of a text and what is shown for it
Truncated(text, shown) ==
  /\ Len(text) >= 40 =>
       /\ Len(shown) = 40
       /\ EndsWith(shown, "...")
       /\ SubSeq(shown, 1, 37) = SubSeq(text, 1, 37)
  /\ Len(text) < 40 => shown = text

\* what printBindings puts around the truncated text of a map value
Before(kind, v) == IF kind = "vars" /\ v.t = "string" THEN "\"" ELSE ""
After(kind, v) ==
  IF kind = "vars" /\ v.t = "string" THEN "\""
  ELSE IF kind \in {"text_blobs", "wasm_modules"} /\ LocalDev /\ ~Provisioning
  THEN RemoteSuffix
  ELSE ""

\* shown is Before \o core \o After, and core has the truncation property
TruncatedWithin(kind, v, shown) ==
  LET b == Len(Before(kind, v))
      a == Len(After(kind, v))
  IN /\ Len(shown) >= b + a
     /\ SubSeq(shown, 1, b) = Before(kind, v)
     /\ EndsWith(shown, After(kind, v))
     /\ Truncated(TextOf(v), SubSeq(shown, b + 1, Len(shown) - a))

(* C11 as stated: for data blobs, text blobs, wasm modules and string or     *)
(* scalar vars, a value of 40 characters or more is rendered as exactly 40   *)
(* characters, the first 37 kept and '...' at the end, and a shorter value   *)
(* is rendered unchanged.                                                    *)
C11_RenderedValueTruncated ==
  Done =>
    \A kind \in MapKinds :
      \A i \in 1..Len(ListOf(kind)) :
        LET v == ListOf(kind)[i].value IN
        IsText(kind, v) =>
          Truncated(TextOf(v), ValueOf(friendlyBindingNames[kind], i))

(* C11 amended: the truncation property holds of the text that truncate      *)
(* returns; the rendered value is that text for data blobs and scalar vars,  *)
(* that text between double quotes for string vars, and that text followed   *)
(* by ' [connected to remote resource]' in local dev without provisioning    *)
(* for text blobs and wasm modules.                                          *)
C11_TruncatedTextWithin ==
  Done =>
    \A kind \in MapKinds :
      \A i \in 1..Len(ListOf(kind)) :
        LET v == ListOf(kind)[i].value IN
        IsText(kind, v) =>
          TruncatedWithin(kind, v, ValueOf(friendlyBindingNames[kind], i))

\* a string var of exactly 40 characters, cut and quoted
C11_Witness ==
  /\ Done
  /\ Len(ListOf("vars")) > 0
  /\ ListOf("vars")[1].value.t = "string"
  /\ Len(ListOf("vars")[1].value.v) = 40
  /\ Len(ValueOf("Vars", 1)) = 42
  /\ EndsWith(ValueOf("Vars", 1), "...\"")

----------------------------------------------------------------------------
\* the fields of a D1 database that are set (ids and names are never empty)
IdSet(item) == item.database_id.t = "string"
NameSet(item) == item.database_name.t = "string"
PreviewSet(item) == item.preview_database_id.t = "string"

\* name and id composed as the claim says
D1Identifier(item) ==
  IF NameSet(item) /\ IdSet(item)
  THEN item.database_name.v \o " (" \o item.database_id.v \o ")"
  ELSE IF IdSet(item) THEN item.database_id.v
  ELSE IF NameSet(item) THEN item.database_name.v
  ELSE ""

PreviewShown(item) ==
  PreviewSet(item) /\ ~(IdSet(item) /\ item.database_id.v = "local")

D1Composed(item) ==
  IF PreviewShown(item)
  THEN (IF D1Identifier(item) # "" THEN D1Identifier(item) \o ", " ELSE "")
       \o "Preview: (" \o item.preview_database_id.v \o ")"
  ELSE D1Identifier(item)

(* C12: the value of a D1 database before the suffix is '<name> (<id>)'      *)
(* when the name and a string id are both set and the one that is set        *)
(* otherwise, with 'Preview: (<preview-id>)' appended, after ', ' when the   *)
(* identifier is not empty, exactly when preview_database_id is set and      *)
(* database_id is not 'local'; the rendered value is that followed by the    *)
(* suffix of the context.                                                    *)
C12_D1ValueComposition ==
  Done =>
    \A i \in 1..Len(ListOf("d1_databases")) :
      LET item == ListOf("d1_databases")[i] IN
      ValueOf("D1 Databases", i)
        = D1Composed(item)
          \o (IF LocalDev /\ ~Provisioning THEN SuffixFor(item.remote) ELSE "")

\* name, id and preview id all set, outside local dev
C12_Witness ==
  /\ Done /\ ~LocalDev
  /\ Len(ListOf("d1_databases")) = 1
  /\ NameSet(ListOf("d1_databases")[1])
  /\ PreviewSet(ListOf("d1_databases")[1])
  /\ ValueOf("D1 Databases", 1) = "db (d1-id), Preview: (prev-id)"

----------------------------------------------------------------------------
ImagesLocalMode == Truthy(context.imagesLocalMode)

(* C13: the Name value of the Images binding carries a suffix exactly when   *)
(* imagesLocalMode is true and provisioning is not, whatever context.local   *)
(* is, and the suffix is then ' [connected to remote resource]', never       *)
(* ' [simulated locally]'.                                                   *)
C13_ImagesSuffix ==
  (Done /\ Has(bindings, "images")) =>
    /\ HasGroup("Images")
    /\ Len(GroupOf("Images").entries) = 1
    /\ GroupOf("Images").entries[1].key = "Name"
    /\ ValueOf("Images", 1)
         = Get(bindings, "images").binding
           \o (IF ImagesLocalMode /\ ~Provisioning THEN RemoteSuffix ELSE "")
    /\ ~Contains(ValueOf("Images", 1), SimulatedSuffix)

\* local dev with imagesLocalMode unset: Images bare next to a suffixed
\* KV namespace of the same render
C13_Witness ==
  /\ Done /\ LocalDev /\ ~ImagesLocalMode /\ ~Provisioning
  /\ Has(bindings, "images") /\ HasGroup("KV Namespaces")
  /\ ValueOf("Images", 1) = "IMAGES"
  /\ HasSuffix(ValueOf("KV Namespaces", 1))

\* imagesLocalMode without local dev: Images suffixed
C13_SuffixedOutsideLocalDev ==
  /\ Done /\ ~LocalDev /\ ImagesLocalMode /\ ~Provisioning
  /\ Has(bindings, "images")
  /\ ValueOf("Images", 1) = "IMAGES" \o RemoteSuffix

=============================================================================
